---------------------------- MODULE Spec2Model ----------------------------
(***************************************************************************)
(* A model of tupak's likelihood classes (src/tupak/core/likelihood.py)    *)
(* and of the geometry / inner-product helpers (src/tupak/gw/utils.py).    *)
(*                                                                         *)
(* One likelihood object is followed from its construction through the     *)
(* calls a sampler makes on it.  Floating point values are kept exact:     *)
(* a finite value is either a rational n/d or the logarithm of one, and    *)
(* the IEEE specials (nan, +inf, -inf) and numpy's nan_to_num sentinels    *)
(* (the largest / most negative finite float) are separate values.         *)
(***************************************************************************)
EXTENDS Integers, Sequences, FiniteSets

VARIABLES py, self, model, res, geo, pol, snr

vars == <<py, self, model, res, geo, pol, snr>>

(***************************************************************************)
(* Bounds of the model.                                                    *)
(***************************************************************************)
MaxEvents == 2      \* posterior sample sets handed to HyperparameterLikelihood
MaxSize == 2        \* native sample count of one posterior sample set
MaxLen == 2         \* length of the x, y and per-point sigma arrays
MaxProb == 2        \* largest density value a prob capability returns
SigLen == 2         \* number of frequency bins of a strain array

(***************************************************************************)
(* Python values: None, integers, and the float 1e100 that is the default  *)
(* of max_samples (larger than every sample count).                        *)
(***************************************************************************)
NoneV == [t |-> "None", v |-> 0]
BigV == [t |-> "big", v |-> 0]
IntV(i) == [t |-> "int", v |-> i]

\* Python's builtin min(a, b) of an int a and b in {None, int, 1e100}.
\* Python 2 orders None below every number; Python 3 raises TypeError.
PyMin(ver, a, b) ==
    IF b.t = "None"
        THEN IF ver = 2 THEN [exc |-> "none", val |-> NoneV]
                        ELSE [exc |-> "TypeError", val |-> NoneV]
    ELSE IF b.t = "big" THEN [exc |-> "none", val |-> IntV(a)]
    ELSE [exc |-> "none", val |-> IntV(IF a <= b.v THEN a ELSE b.v)]

Min2(a, b) == IF a <= b THEN a ELSE b
Max2(a, b) == IF a >= b THEN a ELSE b

(***************************************************************************)
(* Floats.                                                                 *)
(***************************************************************************)
RECURSIVE GCD(_, _)
GCD(a, b) == IF b = 0 THEN a ELSE GCD(b, a % b)

RECURSIVE Pow(_, _)
Pow(b, e) == IF e = 0 THEN 1 ELSE b * Pow(b, e - 1)

NaN == [k |-> "nan", n |-> 0, d |-> 0]
PInf == [k |-> "pinf", n |-> 0, d |-> 0]
NInf == [k |-> "ninf", n |-> 0, d |-> 0]
MaxFloat == [k |-> "max", n |-> 0, d |-> 0]
MinFloat == [k |-> "min", n |-> 0, d |-> 0]
\* the non-negative rational n/d in lowest terms
Rat(n, d) == LET g == GCD(n, d) IN [k |-> "rat", n |-> n \div g, d |-> d \div g]
\* the finite value ln(n/d), n/d in lowest terms
Log(n, d) == LET g == GCD(n, d) IN [k |-> "log", n |-> n \div g, d |-> d \div g]
Zero == Log(1, 1)

IsFinite(f) == f.k \in {"rat", "log", "max", "min"}

\* numpy's elementwise p / q on non-negative finite entries
FDiv(p, q) ==
    IF q = 0 THEN (IF p = 0 THEN NaN ELSE PInf) ELSE Rat(p, q)

\* IEEE addition; two "rat" add as rationals, two "log" add as ln(a) + ln(b) = ln(ab)
FAdd(a, b) ==
    IF a.k = "nan" \/ b.k = "nan" THEN NaN
    ELSE IF (a.k = "pinf" /\ b.k = "ninf") \/ (a.k = "ninf" /\ b.k = "pinf") THEN NaN
    ELSE IF a.k = "pinf" \/ b.k = "pinf" THEN PInf
    ELSE IF a.k = "ninf" \/ b.k = "ninf" THEN NInf
    ELSE IF a.k = "rat" THEN Rat(a.n * b.d + b.n * a.d, a.d * b.d)
    ELSE Log(a.n * b.n, a.d * b.d)

\* numpy.log of a non-negative value
FLog(a) ==
    IF a.k = "rat" THEN (IF a.n = 0 THEN NInf ELSE Log(a.n, a.d)) ELSE a

\* nan_to_num left out: the value is passed through
nan_to_num_skipped(a) == a

\* numpy.nan_to_num of a scalar
nan_to_num(a) ==
    IF a.k = "nan" THEN Zero
    ELSE IF a.k = "pinf" THEN MaxFloat
    ELSE IF a.k = "ninf" THEN MinFloat
    ELSE a

\* numpy.sum of a sequence of floats, starting from the additive identity id
RECURSIVE FSum(_, _)
FSum(s, id) == IF s = <<>> THEN id ELSE FAdd(Head(s), FSum(Tail(s), id))

(***************************************************************************)
(* Parameter mappings (Python dicts): functions from a set of names to     *)
(* Python values.                                                          *)
(***************************************************************************)
ArgNames == {"x", "m", "sigma"}
ParamVals == {NoneV, IntV(1)}
EmptyDict == [k \in {} |-> NoneV]
Dicts(keys) == UNION {[ks -> ParamVals] : ks \in SUBSET keys}

\* dict.update(other) applied to d
DictUpdate(d, other) ==
    [k \in DOMAIN d \cup DOMAIN other |-> IF k \in DOMAIN other THEN other[k] ELSE d[k]]

\* d[key] = val
DictSet(d, key, val) ==
    [k \in DOMAIN d \cup {key} |-> IF k = key THEN val ELSE d[k]]

\* del d[key]
DictDel(d, key) == [k \in DOMAIN d \ {key} |-> d[k]]

\* dict.fromkeys(keys)
DictFromKeys(keys) == [k \in keys |-> NoneV]

(***************************************************************************)
(* The object under study and the result of the last call made on it.      *)
(***************************************************************************)
NoObj == [cls |-> "none"]
NoArgs == [k |-> "none"]
NoRes == [op |-> "none", out |-> "none", exc |-> "none", val |-> NaN, args |-> NoArgs]
Return(op, v) == [op |-> op, out |-> "return", exc |-> "none", val |-> v, args |-> NoArgs]
Raise(op, e) == [op |-> op, out |-> "raise", exc |-> e, val |-> NaN, args |-> NoArgs]

(***************************************************************************)
(* class Likelihood                                                        *)
(***************************************************************************)
\* Likelihood.__init__(self, parameters)
Likelihood_init(parameters) ==
    [cls |-> "Likelihood", hasParameters |-> TRUE, parameters |-> parameters]

\* Likelihood.log_likelihood
Likelihood_log_likelihood == NaN

\* a noise log-likelihood of 0.0 in place of the undefined sentinel
noise_log_likelihood_zero == Zero

\* Likelihood.noise_log_likelihood, inherited unchanged by both subclasses
noise_log_likelihood == NaN

\* a - b of two floats, as log_likelihood_ratio needs it
FSub(a, b) ==
    IF a.k = "nan" \/ b.k = "nan" THEN NaN
    ELSE IF b = Zero THEN a
    ELSE IF a.k = b.k /\ a.k \in {"pinf", "ninf"} THEN NaN
    ELSE IF a.k \in {"pinf", "ninf"} THEN a
    ELSE IF b.k = "pinf" THEN NInf
    ELSE IF b.k = "ninf" THEN PInf
    ELSE [k |-> "diff", n |-> 0, d |-> 0]

(***************************************************************************)
(* class HyperparameterLikelihood                                          *)
(*                                                                         *)
(* A posterior sample set is modelled by its native sample count, the      *)
(* resampled data by the number of samples each event contributes (one     *)
(* row of the 2-D array per event).                                        *)
(***************************************************************************)
\* pandas.DataFrame.sample(n) on a frame of `size` rows: n=None draws one
\* row, and drawing more rows than the frame has (without replacement) fails.
Sample(size, n) ==
    IF n.t = "None" THEN [exc |-> "none", rows |-> 1]
    ELSE IF n.t = "big" \/ n.v > size THEN [exc |-> "ValueError", rows |-> 0]
    ELSE [exc |-> "none", rows |-> n.v]

\* lines 144-145: the loop that sets self.max_samples, run over posteriors[i..]
RECURSIVE CapLoop(_, _, _, _, _)
CapLoop(ver, posteriors, i, arg, cur) ==
    IF i > Len(posteriors) THEN [exc |-> "none", val |-> cur]
    ELSE LET m == PyMin(ver, posteriors[i], arg) IN
         IF m.exc # "none" THEN [exc |-> m.exc, val |-> cur]
         ELSE CapLoop(ver, posteriors, i + 1, arg, m.val)

\* lines 148-151: the sampling loop, run over posteriors[i..]
RECURSIVE SampleLoop(_, _, _, _)
SampleLoop(posteriors, i, arg, acc) ==
    IF i > Len(posteriors) THEN [exc |-> "none", data |-> acc]
    ELSE LET t == Sample(posteriors[i], arg) IN
         IF t.exc # "none" THEN [exc |-> t.exc, data |-> acc]
         ELSE SampleLoop(posteriors, i + 1, arg, Append(acc, t.rows))

\* HyperparameterLikelihood.resample_posteriors(self, max_samples=arg):
\* the exception raised (or "none"), the value left in self.max_samples and
\* the returned data
resample_posteriors(ver, posteriors, max_samples, arg) ==
    LET ms0 == IF arg.t # "None" THEN arg ELSE max_samples
        cap == CapLoop(ver, posteriors, 1, arg, ms0)
        smp == SampleLoop(posteriors, 1, arg, <<>>)
    IN  IF cap.exc # "none"
            THEN [exc |-> cap.exc, max_samples |-> cap.val, data |-> <<>>]
        ELSE IF posteriors = <<>>
            THEN [exc |-> "IndexError", max_samples |-> cap.val, data |-> <<>>]
        ELSE [exc |-> smp.exc, max_samples |-> cap.val,
              data |-> IF smp.exc = "none" THEN smp.data ELSE <<>>]

\* numpy.shape of one entry of the data mapping: (events, samples per event)
Shape(data) == <<Len(data), data[1]>>

\* log_factor = - n_posteriors * log(samples_per_posterior)
LogFactor(n_posteriors, samples_per_posterior) ==
    Log(1, Pow(samples_per_posterior, n_posteriors))

\* Likelihood.__init__(model.parameters), line 123: the unbound call binds
\* model.parameters as self.  "dict" is a plain dict, "dictsub" an instance
\* of a dict subclass (it takes attributes), "likdict" an instance of a
\* class deriving from both Likelihood and dict.
ModelKinds == {"dict", "dictsub", "likdict"}
BaseInitCall(ver, kind) ==
    IF kind = "likdict" THEN "none"
    ELSE IF ver = 2 THEN "TypeError"
    ELSE IF kind = "dict" THEN "AttributeError"
    ELSE "none"

\* HyperparameterLikelihood.__init__
HyperparameterLikelihood_init(ver, posteriors, mdl, sampling_prior, max_samples) ==
    LET e0 == BaseInitCall(ver, mdl.kind)
        r == resample_posteriors(ver, posteriors, max_samples, NoneV)
        shape == Shape(r.data)
        n_posteriors == Min2(shape[1], shape[2])
        samples_per_posterior == Max2(shape[1], shape[2])
    IN  IF e0 # "none" THEN [exc |-> e0, obj |-> NoObj]
        ELSE IF r.exc # "none" THEN [exc |-> r.exc, obj |-> NoObj]
        ELSE IF ver = 3 THEN [exc |-> "TypeError", obj |-> NoObj]
        ELSE [exc |-> "none",
              obj |-> [cls |-> "HyperparameterLikelihood",
                       hasParameters |-> FALSE,
                       parameters |-> EmptyDict,
                       posteriors |-> posteriors,
                       sampling_prior |-> sampling_prior,
                       max_samples |-> r.max_samples,
                       data |-> r.data,
                       n_posteriors |-> n_posteriors,
                       samples_per_posterior |-> samples_per_posterior,
                       log_factor |-> LogFactor(n_posteriors, samples_per_posterior)]]

\* the arrays model.prob(data) and sampling_prior(data) can return: one
\* non-negative finite density per sample, in the shape of the data
ProbVals == 0 .. MaxProb
ProbArrays(data) ==
    IF data = <<>> THEN {<<>>}
    ELSE [1 .. Len(data) -> [1 .. data[1] -> ProbVals]]

\* np.sum(p / q, axis=-1) for one event
RECURSIVE RowSum(_, _, _)
RowSum(prow, qrow, j) ==
    IF j > Len(prow) THEN Rat(0, 1)
    ELSE FAdd(FDiv(prow[j], qrow[j]), RowSum(prow, qrow, j + 1))

EventSums(p, q) == [e \in 1 .. Len(p) |-> RowSum(p[e], q[e], 1)]

\* HyperparameterLikelihood.log_likelihood, lines 137-139, given the arrays
\* the two prob evaluations returned
Hyper_log_l(p, q, log_factor) ==
    LET sums == EventSums(p, q)
        logs == [e \in 1 .. Len(sums) |-> FLog(sums[e])]
    IN  nan_to_num(FAdd(FSum(logs, Zero), log_factor))

SamplingPriorKinds == {"prob_only", "callable"}

(***************************************************************************)
(* class GaussianLikelihood                                                *)
(*                                                                         *)
(* x and y are modelled by their lengths, the model function by the list   *)
(* of its formal argument names (what inspect.getargspec(function).args    *)
(* returns), sigma by None, a scalar or the length of a per-point array.   *)
(***************************************************************************)
SigmaNone == [t |-> "None", v |-> 0]
SigmaScalar == [t |-> "scalar", v |-> 2]
SigmaArray(n) == [t |-> "array", v |-> n]

Range(s) == {s[i] : i \in 1 .. Len(s)}

\* the lists of distinct argument names a Python function can declare
Signatures ==
    {s \in UNION {[1 .. n -> ArgNames] : n \in 0 .. Cardinality(ArgNames)} :
        \A i, j \in 1 .. Len(s) : i # j => s[i] # s[j]}

\* GaussianLikelihood.__init__ without parameters.pop(0): the independent
\* variable stays among the fit parameters
GaussianLikelihood_init_keep_first(ver, lx, ly, function, sigma) ==
    LET parameters == DictFromKeys(Range(function))
    IN  IF function = <<>> THEN [exc |-> "IndexError", obj |-> NoObj]
        ELSE [exc |-> "none",
              obj |-> [cls |-> "GaussianLikelihood",
                       hasParameters |-> TRUE,
                       x |-> lx, y |-> ly, N |-> lx,
                       sigma |-> sigma,
                       function |-> function,
                       keys_live |-> (ver = 3),
                       function_keys |-> DOMAIN parameters,
                       parameters |-> IF sigma.t = "None"
                                        THEN DictSet(parameters, "sigma", NoneV)
                                        ELSE parameters]]

\* GaussianLikelihood.__init__; under Python 3 dict.keys() is a live view of
\* the mapping, under Python 2 a list made at that moment
GaussianLikelihood_init(ver, lx, ly, function, sigma) ==
    LET parameters == DictFromKeys(Range(Tail(function)))
    IN  IF function = <<>> THEN [exc |-> "IndexError", obj |-> NoObj]
        ELSE [exc |-> "none",
              obj |-> [cls |-> "GaussianLikelihood",
                       hasParameters |-> TRUE,
                       x |-> lx, y |-> ly, N |-> lx,
                       sigma |-> sigma,
                       function |-> function,
                       keys_live |-> (ver = 3),
                       function_keys |-> DOMAIN parameters,
                       parameters |-> IF sigma.t = "None"
                                        THEN DictSet(parameters, "sigma", NoneV)
                                        ELSE parameters]]

\* self.function_keys as read at line 90
FunctionKeys(obj) ==
    IF obj.keys_live THEN DOMAIN obj.parameters ELSE obj.function_keys

\* numpy broadcasting of two 1-D shapes; -1 when they do not broadcast
Broadcast(a, b) ==
    IF a = b THEN a ELSE IF a = 1 THEN b ELSE IF b = 1 THEN a ELSE -1

\* the call self.function(self.x, **kw) of an elementwise model function
\* without default values: the exception it raises, or "none"
FunctionCall(function, kw) ==
    IF DOMAIN kw # Range(Tail(function)) THEN "TypeError"
    ELSE IF \E k \in DOMAIN kw : kw[k].t = "None" THEN "TypeError"
    ELSE "none"

\* GaussianLikelihood.log_likelihood
Gaussian_log_likelihood(obj) ==
    LET sigma == IF "sigma" \in DOMAIN obj.parameters
                     THEN (IF obj.parameters["sigma"].t = "None" THEN SigmaNone
                           ELSE [t |-> "scalar", v |-> obj.parameters["sigma"].v])
                     ELSE obj.sigma
        keys == FunctionKeys(obj)
        model_parameters == [k \in keys |-> obj.parameters[k]]
        call == FunctionCall(obj.function, model_parameters)
        rlen == Broadcast(obj.y, obj.x)
        qlen == IF sigma.t = "array" THEN Broadcast(rlen, sigma.v) ELSE rlen
    IN  IF ~(keys \subseteq DOMAIN obj.parameters) THEN Raise("log_likelihood", "KeyError")
        ELSE IF call # "none" THEN Raise("log_likelihood", call)
        ELSE IF rlen = -1 THEN Raise("log_likelihood", "ValueError")
        ELSE IF sigma.t = "None" THEN Raise("log_likelihood", "TypeError")
        ELSE IF qlen = -1 THEN Raise("log_likelihood", "ValueError")
        ELSE Return("log_likelihood",
                    [k |-> "gauss", n |-> obj.N, d |-> qlen,
                     sigma |-> sigma, kw |-> model_parameters,
                     shape |-> IF sigma.t = "array" THEN sigma.v ELSE 0])

(***************************************************************************)
(* The calls made on the likelihood object.                                *)
(***************************************************************************)
NoModel == [kind |-> "none", parameters |-> EmptyDict, attr |-> "unset"]

\* HyperparameterLikelihood.log_likelihood: the outcome and the shared
\* model's parameters after the call
Hyper_log_likelihood(obj, mdl, p, q) ==
    IF ~obj.hasParameters
        THEN [res |-> Raise("log_likelihood", "AttributeError"), parameters |-> mdl.parameters]
    ELSE IF obj.sampling_prior # "callable"
        THEN [res |-> Raise("log_likelihood", "TypeError"),
              parameters |-> DictUpdate(mdl.parameters, obj.parameters)]
    ELSE [res |-> Return("log_likelihood", Hyper_log_l(p, q, obj.log_factor)),
          parameters |-> DictUpdate(mdl.parameters, obj.parameters)]

\* self.log_likelihood() dispatched on the class of self
log_likelihood(obj, mdl, p, q) ==
    IF obj.cls = "Likelihood"
        THEN [res |-> Return("log_likelihood", Likelihood_log_likelihood),
              parameters |-> mdl.parameters]
    ELSE IF obj.cls = "GaussianLikelihood"
        THEN [res |-> Gaussian_log_likelihood(obj), parameters |-> mdl.parameters]
    ELSE Hyper_log_likelihood(obj, mdl, p, q)

\* Likelihood.log_likelihood_ratio, inherited by both subclasses
log_likelihood_ratio(obj, mdl, p, q) ==
    LET ll == log_likelihood(obj, mdl, p, q)
    IN  [res |-> IF ll.res.out = "raise"
                    THEN Raise("log_likelihood_ratio", ll.res.exc)
                    ELSE Return("log_likelihood_ratio",
                                FSub(ll.res.val, noise_log_likelihood)),
         parameters |-> ll.parameters]

\* the density arrays a prob evaluation returns in the life-cycle
\* specification: flat densities, one value for every sample (SpecLogL
\* evaluates the likelihood on every array of ProbArrays)
FlatDensities(obj) ==
    IF obj.cls = "HyperparameterLikelihood" /\ obj.hasParameters
       /\ obj.sampling_prior = "callable"
        THEN {[e \in 1 .. Len(obj.data) |-> [j \in 1 .. obj.data[1] |-> v]] : v \in ProbVals}
        ELSE {<<>>}

\* the per-event importance-weight sums one evaluation worked with
Weights(obj, p, q) ==
    IF p = <<>> THEN NoArgs ELSE [k |-> "weights", sums |-> EventSums(p, q)]

\* GaussianLikelihood.log_likelihood as seen by the model function: the noise
\* scale read from the mapping, whether the function is reached, and the
\* names of the keyword arguments it is called with
GaussianCall(obj) ==
    LET keys == FunctionKeys(obj) IN
    [k |-> "call",
     sigma |-> IF "sigma" \in DOMAIN obj.parameters
                   THEN (IF obj.parameters["sigma"].t = "None" THEN SigmaNone
                         ELSE [t |-> "scalar", v |-> obj.parameters["sigma"].v])
                   ELSE obj.sigma,
     called |-> keys \subseteq DOMAIN obj.parameters,
     kw |-> keys]

\* what a call of log_likelihood() leaves to be observed besides its outcome
CallArgs(obj, p, q) ==
    IF obj.cls = "GaussianLikelihood" THEN GaussianCall(obj) ELSE Weights(obj, p, q)

GeoIdle == [called |-> FALSE]
PolIdle == [called |-> FALSE]
SnrIdle == [called |-> FALSE]

Posteriors == UNION {[1 .. n -> 1 .. MaxSize] : n \in 0 .. MaxEvents}
MaxSamplesArgs == {BigV} \cup {IntV(i) : i \in 1 .. MaxSize}
SigmaArgs == {SigmaNone, SigmaScalar} \cup {SigmaArray(n) : n \in 1 .. MaxLen}
HyperNames == {"m"}
HyperDicts == UNION {[ks -> {IntV(1)}] : ks \in SUBSET HyperNames}
ModelDicts == {[k \in {"m", "x"} |-> IntV(0)]}

Init ==
    /\ py \in {2, 3}
    /\ self = NoObj
    /\ model = NoModel
    /\ res = NoRes
    /\ geo = GeoIdle
    /\ pol = PolIdle
    /\ snr = SnrIdle

\* Likelihood(parameters)
NewLikelihood ==
    /\ self.cls = "none"
    /\ \E d \in Dicts({"m"}) :
        /\ self' = Likelihood_init(d)
        /\ res' = Return("__init__", NaN)
    /\ UNCHANGED <<py, model, geo, pol, snr>>

\* GaussianLikelihood(x, y, function, sigma)
NewGaussian ==
    /\ self.cls = "none"
    /\ \E lx \in 1 .. MaxLen, ly \in 1 .. MaxLen, f \in Signatures, sg \in SigmaArgs :
        LET r == GaussianLikelihood_init(py, lx, ly, f, sg) IN
        /\ self' = r.obj
        /\ res' = IF r.exc = "none" THEN Return("__init__", NaN) ELSE Raise("__init__", r.exc)
    /\ UNCHANGED <<py, model, geo, pol, snr>>

\* HyperparameterLikelihood(posteriors, hyper_prior, model, sampling_prior, max_samples)
NewHyper ==
    /\ self.cls = "none"
    /\ \E ps \in Posteriors, kind \in ModelKinds, mp \in ModelDicts,
          sp \in SamplingPriorKinds, ms \in MaxSamplesArgs :
        LET mdl == [kind |-> kind, parameters |-> mp, attr |-> "unset"]
            r == HyperparameterLikelihood_init(py, ps, mdl, sp, ms)
        IN  /\ self' = r.obj
            /\ model' = [mdl EXCEPT !.attr = IF BaseInitCall(py, kind) = "none"
                                                THEN "None" ELSE "unset"]
            /\ res' = [IF r.exc = "none" THEN Return("__init__", NaN)
                                         ELSE Raise("__init__", r.exc)
                          EXCEPT !.args = [k |-> "init", posteriors |-> ps,
                                           max_samples |-> ms]]
    /\ UNCHANGED <<py, geo, pol, snr>>

\* the sampler's likelihood.parameters[k] = v for a key of the mapping
SetParameter ==
    /\ self.cls \in {"Likelihood", "GaussianLikelihood"}
    /\ \E k \in DOMAIN self.parameters, v \in ParamVals :
        self' = [self EXCEPT !.parameters = DictSet(@, k, v)]
    /\ res' = Return("setitem", NaN)
    /\ UNCHANGED <<py, model, geo, pol, snr>>

\* the caller's del likelihood.parameters[k]
DelParameter ==
    /\ self.cls \in {"Likelihood", "GaussianLikelihood"}
    /\ \E k \in DOMAIN self.parameters :
        self' = [self EXCEPT !.parameters = DictDel(@, k)]
    /\ res' = Return("delitem", NaN)
    /\ UNCHANGED <<py, model, geo, pol, snr>>

\* the caller's likelihood.parameters = d on a HyperparameterLikelihood,
\* whose constructor leaves the attribute unset
AssignParameters ==
    /\ self.cls = "HyperparameterLikelihood"
    /\ \E d \in HyperDicts :
        self' = [self EXCEPT !.hasParameters = TRUE, !.parameters = d]
    /\ res' = Return("setattr", NaN)
    /\ UNCHANGED <<py, model, geo, pol, snr>>

LogLikelihood ==
    /\ self.cls # "none"
    /\ \E p \in FlatDensities(self), q \in FlatDensities(self) :
        LET r == log_likelihood(self, model, p, q) IN
        /\ res' = [r.res EXCEPT !.args = CallArgs(self, p, q)]
        /\ model' = [model EXCEPT !.parameters = r.parameters]
    /\ UNCHANGED <<py, self, geo, pol, snr>>

NoiseLogLikelihood ==
    /\ self.cls # "none"
    /\ res' = Return("noise_log_likelihood", noise_log_likelihood)
    /\ UNCHANGED <<py, self, model, geo, pol, snr>>

LogLikelihoodRatio ==
    /\ self.cls # "none"
    /\ \E p \in FlatDensities(self), q \in FlatDensities(self) :
        LET r == log_likelihood_ratio(self, model, p, q) IN
        /\ res' = [r.res EXCEPT !.args = CallArgs(self, p, q)]
        /\ model' = [model EXCEPT !.parameters = r.parameters]
    /\ UNCHANGED <<py, self, geo, pol, snr>>

\* likelihood.resample_posteriors(max_samples)
ResamplePosteriors ==
    /\ self.cls = "HyperparameterLikelihood"
    /\ \E arg \in {NoneV} \cup {IntV(i) : i \in 1 .. MaxSize} :
        LET r == resample_posteriors(py, self.posteriors, self.max_samples, arg) IN
        /\ self' = [self EXCEPT !.max_samples = r.max_samples]
        /\ res' = IF r.exc = "none"
                    THEN Return("resample_posteriors",
                                [k |-> "data", n |-> 0, d |-> 0, data |-> r.data])
                    ELSE Raise("resample_posteriors", r.exc)
    /\ UNCHANGED <<py, model, geo, pol, snr>>

Next ==
    \/ NewLikelihood
    \/ NewGaussian
    \/ NewHyper
    \/ SetParameter
    \/ DelParameter
    \/ AssignParameters
    \/ LogLikelihood
    \/ NoiseLogLikelihood
    \/ LogLikelihoodRatio
    \/ ResamplePosteriors

Spec == Init /\ [][Next]_vars

(***************************************************************************)
(* Geometry utilities (src/tupak/gw/utils.py).  Angles are whole quarter   *)
(* turns, where sine and cosine are integers; vectors are triples of       *)
(* integers; a delay is the exact fraction num / den.                      *)
(***************************************************************************)
speed_of_light == 299792458

Sin(a) == LET r == a % 4 IN IF r = 1 THEN 1 ELSE IF r = 3 THEN -1 ELSE 0
Cos(a) == Sin(a + 1)

\* tupak.core.utils.gps_time_to_gmst: the sidereal angle at a GPS time,
\* time counted in quarters of a sidereal day
gps_time_to_gmst(time) == time % 4

\* tupak.core.utils.ra_dec_to_theta_phi
ra_dec_to_theta_phi(ra, dec, gmst) == [theta |-> 1 - dec, phi |-> ra - gmst]

Dot(a, b) == a[1] * b[1] + a[2] * b[2] + a[3] * b[3]
VSub(a, b) == <<a[1] - b[1], a[2] - b[2], a[3] - b[3]>>
VAdd(a, b) == <<a[1] + b[1], a[2] + b[2], a[3] + b[3]>>
VScale(c, a) == <<c * a[1], c * a[2], c * a[3]>>
Cross(a, b) == <<a[2] * b[3] - a[3] * b[2],
                 a[3] * b[1] - a[1] * b[3],
                 a[1] * b[2] - a[2] * b[1]>>
\* np.einsum('i,j->ij', a, b)
Outer(a, b) == [i \in 1 .. 3 |-> [j \in 1 .. 3 |-> a[i] * b[j]]]
MAdd(A, B) == [i \in 1 .. 3 |-> [j \in 1 .. 3 |-> A[i][j] + B[i][j]]]
MSub(A, B) == [i \in 1 .. 3 |-> [j \in 1 .. 3 |-> A[i][j] - B[i][j]]]

\* time_delay_geocentric with delta_d = detector2 + detector1
time_delay_geocentric_sum(detector1, detector2, ra, dec, time) ==
    LET gmst == gps_time_to_gmst(time)
        tp == ra_dec_to_theta_phi(ra, dec, gmst)
        omega == <<Sin(tp.theta) * Cos(tp.phi), Sin(tp.theta) * Sin(tp.phi), Cos(tp.theta)>>
        delta_d == VAdd(detector2, detector1)
    IN  [num |-> Dot(omega, delta_d), den |-> speed_of_light]

time_delay_geocentric(detector1, detector2, ra, dec, time) ==
    LET gmst == gps_time_to_gmst(time)
        tp == ra_dec_to_theta_phi(ra, dec, gmst)
        omega == <<Sin(tp.theta) * Cos(tp.phi), Sin(tp.theta) * Sin(tp.phi), Cos(tp.theta)>>
        delta_d == VSub(detector2, detector1)
    IN  [num |-> Dot(omega, delta_d), den |-> speed_of_light]

\* str.lower on the mode names used here
Lower(mode) ==
    CASE mode = "Plus" -> "plus"
      [] mode = "CROSS" -> "cross"
      [] mode = "X" -> "x"
      [] mode = "Scalar" -> "scalar"
      [] OTHER -> mode

ModeNames == {"plus", "cross", "breathing", "longitudinal", "x", "y",
              "Plus", "CROSS", "X", "Scalar", "z", ""}
KnownModes == {"plus", "cross", "breathing", "longitudinal", "x", "y"}

Tensor(M) == [k |-> "tensor", sqrt2 |-> FALSE, m |-> M]
NoTensor == [k |-> "None", sqrt2 |-> FALSE, m |-> <<>>]

\* what get_polarization_tensor returns: a 3x3 array (times sqrt(2) when
\* sqrt2 is set) or None
get_polarization_tensor(ra, dec, time, psi, mode) ==
    LET greenwich_mean_sidereal_time == gps_time_to_gmst(time)
        tp == ra_dec_to_theta_phi(ra, dec, greenwich_mean_sidereal_time)
        theta == tp.theta
        phi == tp.phi
        u == <<Cos(phi) * Cos(theta), Cos(theta) * Sin(phi), -Sin(theta)>>
        v == <<-Sin(phi), Cos(phi), 0>>
        m == VSub(VScale(-Sin(psi), u), VScale(Cos(psi), v))
        n == VAdd(VScale(-Cos(psi), u), VScale(Sin(psi), v))
        omega == Cross(m, n)
    IN  IF Lower(mode) = "plus" THEN Tensor(MSub(Outer(m, m), Outer(n, n)))
        ELSE IF Lower(mode) = "cross" THEN Tensor(MAdd(Outer(m, n), Outer(n, m)))
        ELSE IF Lower(mode) = "breathing" THEN Tensor(MAdd(Outer(m, m), Outer(n, n)))
        ELSE IF Lower(mode) = "longitudinal"
            THEN [k |-> "tensor", sqrt2 |-> TRUE, m |-> Outer(omega, omega)]
        ELSE IF Lower(mode) = "x" THEN Tensor(MAdd(Outer(m, omega), Outer(omega, m)))
        ELSE IF Lower(mode) = "y" THEN Tensor(MAdd(Outer(n, omega), Outer(omega, n)))
        ELSE NoTensor

Coords == {-1, 0, 1}
Vertices == Coords \X Coords \X Coords
RightAscensions == 0 .. 3
Declinations == {-1, 0, 1}
GpsTimes == 0 .. 1
PolarizationAngles == 0 .. 3

\* inputs of one time_delay_geocentric evaluation
InitDelay ==
    /\ py \in {2, 3}
    /\ self = NoObj
    /\ model = NoModel
    /\ res = NoRes
    /\ pol = PolIdle
    /\ snr = SnrIdle
    /\ \E d1 \in Vertices, d2 \in Vertices, ra \in RightAscensions,
          dec \in Declinations, time \in GpsTimes :
        geo = [called |-> FALSE, detector1 |-> d1, detector2 |-> d2,
               ra |-> ra, dec |-> dec, time |-> time,
               delay |-> [num |-> 0, den |-> 1]]

TimeDelay ==
    /\ ~geo.called
    /\ geo' = [geo EXCEPT !.called = TRUE,
                          !.delay = time_delay_geocentric(geo.detector1, geo.detector2,
                                                          geo.ra, geo.dec, geo.time)]
    /\ UNCHANGED <<py, self, model, res, pol, snr>>

NextDelay == TimeDelay

SpecDelay == InitDelay /\ [][NextDelay]_vars

\* inputs of one get_polarization_tensor evaluation
InitTensor ==
    /\ py \in {2, 3}
    /\ self = NoObj
    /\ model = NoModel
    /\ res = NoRes
    /\ geo = GeoIdle
    /\ snr = SnrIdle
    /\ \E ra \in RightAscensions, dec \in Declinations, time \in GpsTimes,
          psi \in PolarizationAngles, mode \in ModeNames :
        pol = [called |-> FALSE, ra |-> ra, dec |-> dec, time |-> time,
               psi |-> psi, mode |-> mode, out |-> NoTensor]

PolarizationTensor ==
    /\ ~pol.called
    /\ pol' = [pol EXCEPT !.called = TRUE,
                          !.out = get_polarization_tensor(pol.ra, pol.dec, pol.time,
                                                          pol.psi, pol.mode)]
    /\ UNCHANGED <<py, self, model, res, geo, snr>>

NextTensor == PolarizationTensor

SpecTensor == InitTensor /\ [][NextTensor]_vars

(***************************************************************************)
(* Inner-product engine.  A complex number is a pair <<re, im>> of         *)
(* integers; an inner product is the exact complex fraction                *)
(* (re + i im) / den in lowest terms.                                      *)
(***************************************************************************)
Abs(a) == IF a < 0 THEN -a ELSE a
Conj(a) == <<a[1], -a[2]>>
CMul(a, b) == <<a[1] * b[1] - a[2] * b[2], a[1] * b[2] + a[2] * b[1]>>

RECURSIVE Prod(_)
Prod(s) == IF s = <<>> THEN 1 ELSE Head(s) * Prod(Tail(s))

CFrac(re, im, den) ==
    LET g == GCD(GCD(Abs(re), Abs(im)), den)
    IN  [re |-> re \div g, im |-> im \div g, den |-> den \div g]

\* sum over i >= j of conj(aa[i]) * bb[i] * (P / psd[i]), P the product of psd
RECURSIVE Integrand(_, _, _, _, _)
Integrand(aa, bb, psd, P, j) ==
    IF j > Len(aa) THEN <<0, 0>>
    ELSE LET t == CMul(Conj(aa[j]), bb[j])
             r == Integrand(aa, bb, psd, P, j + 1)
             w == P \div psd[j]
         IN  <<t[1] * w + r[1], t[2] * w + r[2]>>

noise_weighted_inner_product(aa, bb, power_spectral_density, time_duration) ==
    LET P == Prod(power_spectral_density)
        integrand == Integrand(aa, bb, power_spectral_density, P, 1)
    IN  CFrac(4 * integrand[1], 4 * integrand[2], time_duration * P)

\* matched_filter_snr_squared with the two arrays in each other's role
matched_filter_snr_squared_swapped(signal, interferometer, time_duration) ==
    noise_weighted_inner_product(interferometer.frequency_domain_strain, signal,
                                 interferometer.power_spectral_density_array,
                                 time_duration)

\* an interferometer: [frequency_domain_strain, power_spectral_density_array]
matched_filter_snr_squared(signal, interferometer, time_duration) ==
    noise_weighted_inner_product(signal, interferometer.frequency_domain_strain,
                                 interferometer.power_spectral_density_array,
                                 time_duration)

optimal_snr_squared(signal, interferometer, time_duration) ==
    noise_weighted_inner_product(signal, signal,
                                 interferometer.power_spectral_density_array,
                                 time_duration)

\* time_duration is a float (its docstring), so 4 / time_duration is a true
\* division under either Python; the PSD is positive on every bin
Amplitudes == {<<0, 0>>, <<1, 0>>, <<0, 1>>, <<1, -1>>}
Strains == [1 .. SigLen -> Amplitudes]
PsdArrays == [1 .. SigLen -> {1, 2}]
Durations == {1, 3}

InitSnr ==
    /\ py \in {2, 3}
    /\ self = NoObj
    /\ model = NoModel
    /\ res = NoRes
    /\ geo = GeoIdle
    /\ pol = PolIdle
    /\ \E s \in Strains, h \in Strains, psd \in PsdArrays, T \in Durations :
        snr = [called |-> FALSE, signal |-> s,
               interferometer |-> [frequency_domain_strain |-> h,
                                   power_spectral_density_array |-> psd],
               time_duration |-> T,
               matched |-> CFrac(0, 0, 1), optimal |-> CFrac(0, 0, 1)]

\* both SNR statistics of the signal in the interferometer
SnrSquared ==
    /\ ~snr.called
    /\ snr' = [snr EXCEPT
                 !.called = TRUE,
                 !.matched = matched_filter_snr_squared(snr.signal, snr.interferometer,
                                                        snr.time_duration),
                 !.optimal = optimal_snr_squared(snr.signal, snr.interferometer,
                                                 snr.time_duration)]
    /\ UNCHANGED <<py, self, model, res, geo, pol>>

NextSnr == SnrSquared

SpecSnr == InitSnr /\ [][NextSnr]_vars

(***************************************************************************)
(* HyperparameterLikelihood.log_likelihood as a function of the density    *)
(* arrays: the object is one a Python 2 construction followed by the       *)
(* caller's assignment of the parameter mapping leaves behind, and one     *)
(* evaluation is made with arbitrary non-negative finite density arrays.   *)
(***************************************************************************)
InitLogL ==
    /\ py = 2
    /\ geo = GeoIdle
    /\ pol = PolIdle
    /\ snr = SnrIdle
    /\ \E ps \in Posteriors \ {<<>>}, mp \in ModelDicts, d \in HyperDicts :
        LET mdl == [kind |-> "likdict", parameters |-> mp, attr |-> "None"]
            r == HyperparameterLikelihood_init(2, ps, mdl, "callable", BigV)
        IN  /\ self = [r.obj EXCEPT !.hasParameters = TRUE, !.parameters = d]
            /\ model = mdl
    /\ res = Return("setattr", NaN)

Evaluate ==
    /\ res.op = "setattr"
    /\ \E p \in ProbArrays(self.data), q \in ProbArrays(self.data) :
        LET r == log_likelihood(self, model, p, q) IN
        /\ res' = [r.res EXCEPT !.args = Weights(self, p, q)]
        /\ model' = [model EXCEPT !.parameters = r.parameters]
    /\ UNCHANGED <<py, self, geo, pol, snr>>

NextLogL == Evaluate

SpecLogL == InitLogL /\ [][NextLogL]_vars

(***************************************************************************)
(* Properties.                                                             *)
(***************************************************************************)
IsHyper == self.cls = "HyperparameterLikelihood"
IsGaussian == self.cls = "GaussianLikelihood"

RECURSIVE SeqMin(_)
SeqMin(s) == IF Len(s) = 1 THEN s[1] ELSE Min2(Head(s), SeqMin(Tail(s)))

\* min(max_samples, s_1, ..., s_k)
Cap(max_samples, sizes) ==
    IF max_samples.t = "int" THEN Min2(max_samples.v, SeqMin(sizes)) ELSE SeqMin(sizes)

\* C1: right after construction every event contributes
\* min(max_samples, s_1, ..., s_k) samples to the data array, and that number
\* is the value resample_posteriors left in self.max_samples.
C1_CommonCap ==
    (IsHyper /\ res.op = "__init__") =>
        LET cap == Cap(res.args.max_samples, self.posteriors) IN
        /\ \A e \in 1 .. Len(self.data) : self.data[e] = cap
        /\ self.max_samples = IntV(cap)

\* C2: n_posteriors is the number of events, samples_per_posterior the common
\* per-event sample count of the data array, and log_factor is
\* -n_posteriors * log(samples_per_posterior).
C2_Counts ==
    IsHyper =>
        /\ self.n_posteriors = Len(self.posteriors)
        /\ \A e \in 1 .. Len(self.data) : self.data[e] = self.samples_per_posterior
        /\ self.log_factor = LogFactor(self.n_posteriors, self.samples_per_posterior)

\* C3: once the caller has supplied the parameter mapping, every
\* log_likelihood() call on a HyperparameterLikelihood returns, and returns a
\* finite float.
C3_FiniteFloat ==
    (IsHyper /\ self.hasParameters /\ res.op = "log_likelihood") =>
        (res.out = "return" /\ IsFinite(res.val))

\* C4: get_polarization_tensor with a mode name outside plus, cross,
\* breathing, longitudinal, x, y (case-insensitively) does not return: neither
\* a tensor nor None.
C4_UnknownModeFails ==
    (pol.called /\ Lower(pol.mode) \notin KnownModes) =>
        (pol.out.k # "None" /\ pol.out.k # "tensor")

LengthsMismatch ==
    \/ self.x # self.y
    \/ (self.sigma.t = "array" /\ self.sigma.v # self.x)

\* C5: log_likelihood() of a GaussianLikelihood whose x, y and per-point sigma
\* do not all have the same length raises; it never returns a value.
C5_LengthMismatchFails ==
    (IsGaussian /\ LengthsMismatch /\ res.op = "log_likelihood") => res.out = "raise"

\* C6: log_likelihood_ratio() is log_likelihood() - noise_log_likelihood() on
\* the same parameter mapping: it raises what log_likelihood() raises, and
\* since noise_log_likelihood() is NaN on every class (as is log_likelihood()
\* on the base class) every ratio that is returned is NaN.
C6_RatioUndefined ==
    /\ (res.op = "noise_log_likelihood") => (res.out = "return" /\ res.val.k = "nan")
    /\ (res.op = "log_likelihood" /\ self.cls = "Likelihood") =>
            (res.out = "return" /\ res.val.k = "nan")
    /\ (res.op = "log_likelihood_ratio" /\ res.out = "return") => res.val.k = "nan"
    /\ (res.op = "log_likelihood_ratio" /\ ~IsHyper) =>
            LET ll == log_likelihood(self, model, <<>>, <<>>).res IN
            /\ res.out = ll.out
            /\ res.exc = ll.exc
    /\ (res.op = "log_likelihood_ratio" /\ IsHyper) =>
            (res.out = "return" <=> (self.hasParameters /\ self.sampling_prior = "callable"))

C6_Witness ==
    /\ IsGaussian
    /\ res.op = "log_likelihood_ratio"
    /\ res.out = "return"
    /\ Gaussian_log_likelihood(self).val.k = "gauss"

\* C7: right after construction the keys of a GaussianLikelihood's parameter
\* mapping are the function's argument names without the first, plus 'sigma'
\* when sigma was not supplied; 'sigma' is a key exactly when sigma was not
\* supplied or the function declares it; every value is None.
C7_ParameterKeys ==
    (IsGaussian /\ res.op = "__init__") =>
        LET declared == {self.function[i] : i \in 2 .. Len(self.function)} IN
        /\ DOMAIN self.parameters =
              declared \cup (IF self.sigma.t = "None" THEN {"sigma"} ELSE {})
        /\ ("sigma" \in DOMAIN self.parameters) <=>
              (self.sigma.t = "None" \/ "sigma" \in declared)
        /\ \A k \in DOMAIN self.parameters : self.parameters[k] = NoneV

C7_Witness ==
    /\ IsGaussian
    /\ res.op = "__init__"
    /\ self.sigma.t = "None"
    /\ Len(self.function) = 2
    /\ "sigma" \notin Range(self.function)

\* C8: the delay from detector1 to detector2 is minus the delay from
\* detector2 to detector1 for the same ra, dec and time, and it is 0 when the
\* two vertices coincide.
C8_Antisymmetry ==
    geo.called =>
        LET back == time_delay_geocentric(geo.detector2, geo.detector1,
                                          geo.ra, geo.dec, geo.time) IN
        /\ geo.delay.num = -back.num
        /\ geo.delay.den = back.den
        /\ (geo.detector1 = geo.detector2) => geo.delay.num = 0

C8_Witness ==
    /\ geo.called
    /\ geo.detector1 # geo.detector2
    /\ geo.delay.num > 0

\* sum over i >= j of Re and Im of conj(a[i]) * b[i] / psd[i], times P
RECURSIVE ConjRe(_, _, _, _, _)
ConjRe(a, b, psd, P, j) ==
    IF j > Len(a) THEN 0
    ELSE (a[j][1] * b[j][1] + a[j][2] * b[j][2]) * (P \div psd[j])
         + ConjRe(a, b, psd, P, j + 1)

RECURSIVE ConjIm(_, _, _, _, _)
ConjIm(a, b, psd, P, j) ==
    IF j > Len(a) THEN 0
    ELSE (a[j][1] * b[j][2] - a[j][2] * b[j][1]) * (P \div psd[j])
         + ConjIm(a, b, psd, P, j + 1)

\* value = 4 / T * sum(conj(a) * b / psd)
IsInnerProduct(value, a, b, psd, T) ==
    LET P == Prod(psd) IN
    /\ value.den > 0
    /\ value.re * T * P = 4 * ConjRe(a, b, psd, P, 1) * value.den
    /\ value.im * T * P = 4 * ConjIm(a, b, psd, P, 1) * value.den

\* C9: both SNR statistics are the noise-weighted inner product under the
\* detector's PSD array with the signal conjugated (against the detector's
\* strain, and against the signal itself), so they are equal when the
\* detector's strain is the signal.
C9_SnrEquivalence ==
    snr.called =>
        LET s == snr.signal
            h == snr.interferometer.frequency_domain_strain
            psd == snr.interferometer.power_spectral_density_array
        IN  /\ IsInnerProduct(snr.matched, s, h, psd, snr.time_duration)
            /\ IsInnerProduct(snr.optimal, s, s, psd, snr.time_duration)
            /\ (h = s) => snr.matched = snr.optimal

C9_Witness ==
    /\ snr.called
    /\ snr.interferometer.frequency_domain_strain = snr.signal
    /\ \E i \in 1 .. SigLen : snr.signal[i][2] # 0
    /\ snr.matched.re > 0

\* an importance-weight sum that is non-finite or zero
Degenerate(w) == w.k \in {"nan", "pinf"} \/ (w.k = "rat" /\ w.n = 0)

Evaluated == IsHyper /\ res.op = "log_likelihood" /\ res.out = "return"

\* C10 as stated: an event whose importance-weight sum is non-finite or zero
\* contributes nothing, the value returned being the sum of the logarithms
\* of the other events' sums plus log_factor.
C10_PerEventCoercion ==
    (Evaluated /\ \E e \in 1 .. Len(res.args.sums) : Degenerate(res.args.sums[e])) =>
        LET rest == SelectSeq(res.args.sums, LAMBDA w : ~Degenerate(w))
            logs == [i \in 1 .. Len(rest) |-> FLog(rest[i])]
        IN  res.val = FAdd(FSum(logs, Zero), self.log_factor)

RECURSIVE ProdNum(_)
ProdNum(ws) == IF ws = <<>> THEN 1 ELSE Head(ws).n * ProdNum(Tail(ws))

RECURSIVE ProdDen(_)
ProdDen(ws) == IF ws = <<>> THEN 1 ELSE Head(ws).d * ProdDen(Tail(ws))

\* C10 amended: the coercion is applied once, to the total.  A NaN sum (a
\* 0/0 ratio), or an infinite sum together with a zero sum, makes the value
\* 0.0; otherwise an infinite sum makes it the largest finite float;
\* otherwise a zero sum makes it the most negative finite float; otherwise it
\* is the sum of the logarithms of the sums plus log_factor.
C10_TotalCoercion ==
    Evaluated =>
        LET ws == res.args.sums
            anyNaN == \E e \in 1 .. Len(ws) : ws[e].k = "nan"
            anyInf == \E e \in 1 .. Len(ws) : ws[e].k = "pinf"
            anyZero == \E e \in 1 .. Len(ws) : ws[e].k = "rat" /\ ws[e].n = 0
        IN  IF anyNaN \/ (anyInf /\ anyZero) THEN res.val = Zero
            ELSE IF anyInf THEN res.val = MaxFloat
            ELSE IF anyZero THEN res.val = MinFloat
            ELSE res.val = Log(ProdNum(ws),
                               ProdDen(ws) * Pow(self.samples_per_posterior,
                                                 self.n_posteriors))

C10_Witness ==
    /\ Evaluated
    /\ \E e1, e2 \in 1 .. Len(res.args.sums) :
        /\ res.args.sums[e1].k = "rat" /\ res.args.sums[e1].n = 0
        /\ res.args.sums[e2].k = "rat" /\ res.args.sums[e2].n > 0
    /\ res.val = MinFloat


(***************************************************************************)
(* C11: GaussianLikelihood.log_likelihood() takes its noise scale from     *)
(* parameters['sigma'] when the key is in the mapping and from the sigma   *)
(* given at construction otherwise; it calls the model function with       *)
(* exactly the arguments the function declares after x, so 'sigma' is      *)
(* passed only to a function that declares it, also when sigma was not     *)
(* supplied and was added to the mapping as an inferred parameter; and a   *)
(* declared argument whose key is missing from the mapping makes the call  *)
(* raise.                                                                  *)
(***************************************************************************)
GaussianCalled == IsGaussian /\ res.args.k = "call"

Declared == Range(Tail(self.function))

C11_FitParametersOnly ==
    GaussianCalled =>
        /\ res.args.sigma =
               (IF "sigma" \in DOMAIN self.parameters
                    THEN (IF self.parameters["sigma"].t = "None" THEN SigmaNone
                          ELSE [t |-> "scalar", v |-> self.parameters["sigma"].v])
                    ELSE self.sigma)
        /\ (Declared \subseteq DOMAIN self.parameters) =>
               (res.args.called /\ res.args.kw = Declared)
        /\ ~(Declared \subseteq DOMAIN self.parameters) => res.out = "raise"


(***************************************************************************)
(* C12: constructing a HyperparameterLikelihood from valid inputs (at      *)
(* least one posterior) succeeds and leaves the object with its own        *)
(* parameter mapping, initialised from the population model's parameters;  *)
(* when log_likelihood() returns, model.parameters agrees with the         *)
(* likelihood's mapping on every key of that mapping; and the sampling     *)
(* prior is used through its prob capability, so an object that offers     *)
(* prob and is not itself callable serves.                                 *)
(***************************************************************************)
HyperConstruction ==
    res.op = "__init__" /\ res.args.k = "init" /\ res.args.posteriors # <<>>

HyperCalled == IsHyper /\ res.op = "log_likelihood"

C12_SharedParameters ==
    /\ HyperConstruction =>
           /\ res.out = "return"
           /\ IsHyper
           /\ self.hasParameters
           /\ self.parameters = model.parameters
    /\ (HyperCalled /\ res.out = "return") =>
           \A k \in DOMAIN self.parameters :
               k \in DOMAIN model.parameters /\ model.parameters[k] = self.parameters[k]
    /\ (HyperCalled /\ self.hasParameters /\ self.sampling_prior = "prob_only") =>
           res.out = "return"

=============================================================================
